---- MODULE Spec2Model ----
(***************************************************************************)
(* Royalty computation on a progressive scale (royalties.py).              *)
(*                                                                         *)
(* The state is one Right and the RoyaltyStack it owns.  push and pop are  *)
(* Python generators: a call only creates a suspended frame, and the       *)
(* stack's fields change while a caller resumes that frame.  The           *)
(* specification Spec drives the stack the way Right.apply_statement's     *)
(* for loop does, draining each generator to its end inside one action;    *)
(* the specification SpecGen lets a caller hold frames and resume them     *)
(* one yield at a time.  Both use the same translation of the loop bodies. *)
(* Sequences are 1-based here and 0-based in the source; _rate_index keeps *)
(* the source's 0-based value.                                             *)
(***************************************************************************)
EXTENDS Integers, Sequences, FiniteSets, TLC

\* Bounds of the model.
MaxLen == 3
MaxRate == 2
MaxLimit == 3
MaxDelta == 4
MaxSold == 5
MaxDebt == 2
MaxGens == 1
MaxStatements == 2
MaxDate == 2
MaxPrice == 2
MaxCopies == 2
MaxAdvance == 1
MaxRuns == 2

\* Step(rate, limit): both fields are plain ints, so negative values exist.
Step == [rate : (-1)..MaxRate, limit : (-1)..MaxLimit]

Progressions == UNION {[1..n -> Step] : n \in 0..MaxLen}

Deltas == (-MaxDelta)..MaxDelta

VARIABLES
  progression,   \* the List[Step] handed to the constructor
  via,           \* "none" | "Right" | "RoyaltyStack" | "ValueError"
  _rates,        \* RoyaltyStack._rates
  _rate_index,   \* RoyaltyStack._rate_index
  _cursor,       \* RoyaltyStack._cursor : dict rate -> copies
  _limits,       \* RoyaltyStack._limits : dict rate -> width
  gens,          \* generator frames a caller holds (SpecGen)
  op,            \* the last call made on the object
  out,           \* the records that call yielded
  err,           \* the exception that call raised, or "none"
  pre,           \* _rate_index and _cursor when that call started
  sold,          \* sum of the signed copies of the calls since construction/reset
  dipped,        \* whether sold has been negative since construction/reset
  advance,       \* Agreement.advance
  rights,        \* Agreement.rights : dict name -> Right
  statements,    \* Agreement.statements
  report,        \* the ReportItems the last apply_statements yielded
  added,         \* the statements in the order add_statements received them
  item_src,      \* for each item of report, the position of its statement
  trail,         \* the rights before and after each statement of the last run
  runs           \* runs of apply_statements since the list last changed

ledgerVars == <<advance, rights, statements, report, added, item_src, trail, runs>>

vars == <<progression, via, _rates, _rate_index, _cursor, _limits, gens,
          op, out, err, pre, sold, dipped, ledgerVars>>

----------------------------------------------------------------------------
\* Small helpers.

RECURSIVE SumOver(_, _)
SumOver(f, S) ==
  IF S = {} THEN 0
  ELSE LET x == CHOOSE y \in S : TRUE IN f[x] + SumOver(f, S \ {x})

RECURSIVE SumQty(_)
SumQty(recs) ==
  IF recs = <<>> THEN 0 ELSE Head(recs).copies + SumQty(Tail(recs))

\* Python list indexing: i in -len..len-1, negative i counts from the end.
InRange(lst, i) == i >= -Len(lst) /\ i < Len(lst)

At(lst, i) == IF i >= 0 THEN lst[i + 1] ELSE lst[Len(lst) + i + 1]

----------------------------------------------------------------------------
\* progression_is_valid: the loop returns False at the first failing step.

StepFails(p, i) ==
  IF i = 1
    THEN p[i].rate < 0 \/ p[i].limit < 0
    ELSE IF i = Len(p)
      THEN p[i].rate <= p[i-1].rate \/ p[i].limit # 0
      ELSE p[i].rate <= p[i-1].rate \/ p[i].limit <= p[i-1].limit

progression_is_valid(p) == \A i \in 1..Len(p) : ~StepFails(p, i)

----------------------------------------------------------------------------
\* RoyaltyStack.__init__

RatesOf(p) == [i \in 1..Len(p) |-> p[i].rate]

RateKeys(p) == {p[i].rate : i \in 1..Len(p)}

\* _init_cursor: one key per distinct rate, all 0.
init_cursor(p) == [r \in RateKeys(p) |-> 0]

\* Variant: the cumulative limit taken as the tier's width.
StepWidth_Cumulative(p, i) == p[i].limit

\* The width the loop of __init__ computes for step i.
StepWidth(p, i) ==
  IF i = 1 \/ p[i].limit = 0
    THEN p[i].limit
    ELSE p[i].limit - p[i-1].limit

\* _limits is keyed by rate: a later step with the same rate overwrites.
LastWithRate(p, r) ==
  CHOOSE i \in 1..Len(p) :
    p[i].rate = r /\ \A j \in (i+1)..Len(p) : p[j].rate # r

LimitsOf(p) == [r \in RateKeys(p) |-> StepWidth(p, LastWithRate(p, r))]

\* The stack as a value, for the operators below.
Stack == [rates |-> _rates, limits |-> _limits,
          idx |-> _rate_index, cursor |-> _cursor]

NewStack(p) == [rates |-> RatesOf(p), limits |-> LimitsOf(p),
                idx |-> 0, cursor |-> init_cursor(p)]

----------------------------------------------------------------------------
\* Generator frames.  pc is where the frame is suspended:
\*   "start"  created, body not entered
\*   "fit"    at the yield of the if-branch  (lines 88 / 107)
\*   "spill"  at the yield of the else-branch (lines 93 / 112)
\*   "done"   returned;  "raised"  ended by an exception

Frame(kind, copies) ==
  [kind |-> kind, pc |-> "start", copies |-> copies, cr |-> 0, to_apply |-> 0]

push(copies) == Frame("push", copies)

pop(copies) == Frame("pop", copies)

_get_iterator(copies) ==
  IF copies < 0 THEN pop(copies * (-1)) ELSE push(copies)

Finished(f) == f.pc \in {"done", "raised"}

\* Variant: "<" where push compares with "<=".
PushToYield_Strict(f, s) ==
  IF ~(f.copies > 0)
    THEN [frame |-> [f EXCEPT !.pc = "done"], stack |-> s,
          yielded |-> <<>>, exc |-> "none"]
  ELSE IF ~InRange(s.rates, s.idx)
    THEN [frame |-> [f EXCEPT !.pc = "raised"], stack |-> s,
          yielded |-> <<>>, exc |-> "IndexError"]
  ELSE
    LET cr == At(s.rates, s.idx)
        has_no_upper_limit == s.limits[cr] = 0
        cursor_after_apply == s.cursor[cr] + f.copies
        can_process_at_current_rate == cursor_after_apply < s.limits[cr]
    IN  IF has_no_upper_limit \/ can_process_at_current_rate
          THEN [frame |-> [f EXCEPT !.pc = "fit", !.cr = cr], stack |-> s,
                yielded |-> <<[copies |-> f.copies, rate |-> cr]>>,
                exc |-> "none"]
          ELSE LET to_apply == s.limits[cr] - s.cursor[cr] IN
               [frame |-> [f EXCEPT !.pc = "spill", !.cr = cr,
                                    !.to_apply = to_apply],
                stack |-> s,
                yielded |-> <<[copies |-> to_apply, rate |-> cr]>>,
                exc |-> "none"]

\* push, from the while test to the next yield.
PushToYield(f, s) ==
  IF ~(f.copies > 0)
    THEN [frame |-> [f EXCEPT !.pc = "done"], stack |-> s,
          yielded |-> <<>>, exc |-> "none"]
  ELSE IF ~InRange(s.rates, s.idx)
    THEN [frame |-> [f EXCEPT !.pc = "raised"], stack |-> s,
          yielded |-> <<>>, exc |-> "IndexError"]
  ELSE
    LET cr == At(s.rates, s.idx)
        has_no_upper_limit == s.limits[cr] = 0
        cursor_after_apply == s.cursor[cr] + f.copies
        can_process_at_current_rate == cursor_after_apply <= s.limits[cr]
    IN  IF has_no_upper_limit \/ can_process_at_current_rate
          THEN [frame |-> [f EXCEPT !.pc = "fit", !.cr = cr], stack |-> s,
                yielded |-> <<[copies |-> f.copies, rate |-> cr]>>,
                exc |-> "none"]
          ELSE LET to_apply == s.limits[cr] - s.cursor[cr] IN
               [frame |-> [f EXCEPT !.pc = "spill", !.cr = cr,
                                    !.to_apply = to_apply],
                stack |-> s,
                yielded |-> <<[copies |-> to_apply, rate |-> cr]>>,
                exc |-> "none"]

\* Variant: the else-branch takes the tier's width off copies, not to_apply.
PushAfterYield_WrongDecrement(f, s) ==
  IF f.pc = "fit"
    THEN [frame |-> [f EXCEPT !.copies = 0],
          stack |-> [s EXCEPT !.cursor[f.cr] = @ + f.copies]]
    ELSE [frame |-> [f EXCEPT !.copies = @ - s.limits[f.cr]],
          stack |-> [s EXCEPT !.cursor[f.cr] = @ + f.to_apply,
                              !.idx = @ + 1]]

\* Variant: the else-branch does not move _rate_index.
PushAfterYield_NoAdvance(f, s) ==
  IF f.pc = "fit"
    THEN [frame |-> [f EXCEPT !.copies = 0],
          stack |-> [s EXCEPT !.cursor[f.cr] = @ + f.copies]]
    ELSE [frame |-> [f EXCEPT !.copies = @ - f.to_apply],
          stack |-> [s EXCEPT !.cursor[f.cr] = @ + f.to_apply]]

\* push, the statements after the yield it is suspended at.
PushAfterYield(f, s) ==
  IF f.pc = "fit"
    THEN [frame |-> [f EXCEPT !.copies = 0],
          stack |-> [s EXCEPT !.cursor[f.cr] = @ + f.copies]]
    ELSE [frame |-> [f EXCEPT !.copies = @ - f.to_apply],
          stack |-> [s EXCEPT !.cursor[f.cr] = @ + f.to_apply,
                              !.idx = @ + 1]]

\* Variant: pop without the has_no_lower_limit test.
PopToYield_NoFloor(f, s) ==
  IF ~(f.copies > 0)
    THEN [frame |-> [f EXCEPT !.pc = "done"], stack |-> s,
          yielded |-> <<>>, exc |-> "none"]
  ELSE IF ~InRange(s.rates, s.idx)
    THEN [frame |-> [f EXCEPT !.pc = "raised"], stack |-> s,
          yielded |-> <<>>, exc |-> "IndexError"]
  ELSE
    LET cr == At(s.rates, s.idx)
        can_process_at_current_rate == s.cursor[cr] - f.copies >= 0
    IN  IF can_process_at_current_rate
          THEN [frame |-> [f EXCEPT !.pc = "fit", !.cr = cr], stack |-> s,
                yielded |-> <<[copies |-> f.copies * (-1), rate |-> cr]>>,
                exc |-> "none"]
          ELSE LET to_apply == s.cursor[cr] IN
               [frame |-> [f EXCEPT !.pc = "spill", !.cr = cr,
                                    !.to_apply = to_apply],
                stack |-> s,
                yielded |-> <<[copies |-> to_apply * (-1), rate |-> cr]>>,
                exc |-> "none"]

\* pop, from the while test to the next yield.
PopToYield(f, s) ==
  IF ~(f.copies > 0)
    THEN [frame |-> [f EXCEPT !.pc = "done"], stack |-> s,
          yielded |-> <<>>, exc |-> "none"]
  ELSE IF ~InRange(s.rates, s.idx)
    THEN [frame |-> [f EXCEPT !.pc = "raised"], stack |-> s,
          yielded |-> <<>>, exc |-> "IndexError"]
  ELSE
    LET cr == At(s.rates, s.idx)
        has_no_lower_limit == s.idx = 0
        can_process_at_current_rate == s.cursor[cr] - f.copies >= 0
    IN  IF has_no_lower_limit \/ can_process_at_current_rate
          THEN [frame |-> [f EXCEPT !.pc = "fit", !.cr = cr], stack |-> s,
                yielded |-> <<[copies |-> f.copies * (-1), rate |-> cr]>>,
                exc |-> "none"]
          ELSE LET to_apply == s.cursor[cr] IN
               [frame |-> [f EXCEPT !.pc = "spill", !.cr = cr,
                                    !.to_apply = to_apply],
                stack |-> s,
                yielded |-> <<[copies |-> to_apply * (-1), rate |-> cr]>>,
                exc |-> "none"]

\* Variant: the else-branch leaves _rate_index where it is.
PopAfterYield_NoRetreat(f, s) ==
  IF f.pc = "fit"
    THEN [frame |-> [f EXCEPT !.copies = 0],
          stack |-> [s EXCEPT !.cursor[f.cr] = @ - f.copies]]
    ELSE [frame |-> [f EXCEPT !.copies = @ - f.to_apply],
          stack |-> [s EXCEPT !.cursor[f.cr] = 0]]

\* Variant: the else-branch does not empty the tier it leaves.
PopAfterYield_KeepsTier(f, s) ==
  IF f.pc = "fit"
    THEN [frame |-> [f EXCEPT !.copies = 0],
          stack |-> [s EXCEPT !.cursor[f.cr] = @ - f.copies]]
    ELSE [frame |-> [f EXCEPT !.copies = @ - f.to_apply],
          stack |-> [s EXCEPT !.idx = @ - 1]]

\* Variant: the if-branch adds the returned copies.
PopAfterYield_FitAdds(f, s) ==
  IF f.pc = "fit"
    THEN [frame |-> [f EXCEPT !.copies = 0],
          stack |-> [s EXCEPT !.cursor[f.cr] = @ + f.copies]]
    ELSE [frame |-> [f EXCEPT !.copies = @ - f.to_apply],
          stack |-> [s EXCEPT !.cursor[f.cr] = 0,
                              !.idx = @ - 1]]

\* pop, the statements after the yield it is suspended at.
PopAfterYield(f, s) ==
  IF f.pc = "fit"
    THEN [frame |-> [f EXCEPT !.copies = 0],
          stack |-> [s EXCEPT !.cursor[f.cr] = @ - f.copies]]
    ELSE [frame |-> [f EXCEPT !.copies = @ - f.to_apply],
          stack |-> [s EXCEPT !.cursor[f.cr] = 0,
                              !.idx = @ - 1]]

\* next(g): run the frame from where it is suspended to its next yield,
\* its return or its exception.
Resume(f, s) ==
  IF Finished(f)
    THEN [frame |-> f, stack |-> s, yielded |-> <<>>, exc |-> "none"]
  ELSE IF f.pc = "start"
    THEN IF f.kind = "push" THEN PushToYield(f, s) ELSE PopToYield(f, s)
  ELSE IF f.kind = "push"
    THEN LET a == PushAfterYield(f, s) IN PushToYield(a.frame, a.stack)
    ELSE LET a == PopAfterYield(f, s) IN PopToYield(a.frame, a.stack)

\* The for loop of Right.apply_statement (or list(g)): resume until the
\* frame ends.  fuel counts the resumes still allowed; a frame that is not
\* finished when it runs out is reported as "Unfinished".
DrainBudget == MaxLen + 2

RECURSIVE Drain(_, _, _, _)
Drain(f, s, recs, fuel) ==
  IF Finished(f)
    THEN [stack |-> s, out |-> recs, exc |-> "none"]
  ELSE IF fuel = 0
    THEN [stack |-> s, out |-> recs, exc |-> "Unfinished"]
  ELSE LET r == Resume(f, s) IN
       IF r.exc # "none"
         THEN [stack |-> r.stack, out |-> recs \o r.yielded, exc |-> r.exc]
         ELSE Drain(r.frame, r.stack, recs \o r.yielded, fuel - 1)

\* Variant: reset that does not call _init_cursor.
reset_KeepsCursor(s) == [s EXCEPT !.idx = 0]

\* RoyaltyStack.reset
reset(s) == [s EXCEPT !.idx = 0, !.cursor = [r \in DOMAIN s.cursor |-> 0]]

----------------------------------------------------------------------------
\* State machine.

NoCall == [kind |-> "none", arg |-> 0]

Init ==
  /\ progression \in Progressions
  /\ via = "none"
  /\ _rates = <<>>
  /\ _rate_index = 0
  /\ _cursor = <<>>
  /\ _limits = <<>>
  /\ gens = <<>>
  /\ op = NoCall
  /\ out = <<>>
  /\ err = "none"
  /\ pre = [idx |-> 0, cursor |-> <<>>]
  /\ sold = 0
  /\ dipped = FALSE
  /\ advance = 0
  /\ rights = <<>>
  /\ statements = <<>>
  /\ report = <<>>
  /\ added = <<>>
  /\ item_src = <<>>
  /\ trail = <<>>
  /\ runs = 0

Install(s) ==
  /\ _rates' = s.rates
  /\ _limits' = s.limits
  /\ _rate_index' = s.idx
  /\ _cursor' = s.cursor

\* Variant: Right.__init__ without the validity test.
NewRight_Unchecked ==
  /\ via = "none"
  /\ via' = "Right"
  /\ Install(NewStack(progression))
  /\ UNCHANGED <<progression, gens, op, out, err, pre, sold, dipped>>
  /\ UNCHANGED ledgerVars

\* Right.__init__ (through any subclass): validate, then build the stack.
NewRight ==
  /\ via = "none"
  /\ IF ~progression_is_valid(progression)
       THEN /\ via' = "ValueError"
            /\ UNCHANGED <<_rates, _rate_index, _cursor, _limits>>
       ELSE /\ via' = "Right"
            /\ Install(NewStack(progression))
  /\ UNCHANGED <<progression, gens, op, out, err, pre, sold, dipped>>
  /\ UNCHANGED ledgerVars

\* RoyaltyStack.__init__ called directly: no validation.  Only the
\* construction is modelled; the program operates stacks through a Right.
NewRoyaltyStack ==
  /\ via = "none"
  /\ via' = "RoyaltyStack"
  /\ Install(NewStack(progression))
  /\ UNCHANGED <<progression, gens, op, out, err, pre, sold, dipped>>
  /\ UNCHANGED ledgerVars

\* for copies, rate in self._get_iterator(d): ...   run to the end.
Allocate(d) ==
  /\ via = "Right"
  /\ sold + d \in (-MaxDebt)..MaxSold
  /\ LET r == Drain(_get_iterator(d), Stack, <<>>, DrainBudget) IN
       /\ _rate_index' = r.stack.idx
       /\ _cursor' = r.stack.cursor
       /\ out' = r.out
       /\ err' = r.exc
  /\ op' = [kind |-> "allocate", arg |-> d]
  /\ pre' = [idx |-> _rate_index, cursor |-> _cursor]
  /\ sold' = sold + d
  /\ dipped' = (dipped \/ sold + d < 0)
  /\ UNCHANGED <<progression, via, _rates, _limits, gens>>
  /\ UNCHANGED ledgerVars

\* Right.reset -> RoyaltyStack.reset
Reset ==
  /\ via = "Right"
  /\ LET s == reset(Stack) IN
       /\ _rate_index' = s.idx
       /\ _cursor' = s.cursor
  /\ op' = [kind |-> "reset", arg |-> 0]
  /\ out' = <<>>
  /\ err' = "none"
  /\ pre' = [idx |-> _rate_index, cursor |-> _cursor]
  /\ sold' = 0
  /\ dipped' = FALSE
  /\ UNCHANGED <<progression, via, _rates, _limits, gens>>
  /\ UNCHANGED ledgerVars

Next ==
  \/ NewRight
  \/ NewRoyaltyStack
  \/ \E d \in Deltas : Allocate(d)
  \/ Reset

Spec == Init /\ [][Next]_vars

----------------------------------------------------------------------------
\* SpecGen: the caller holds generator objects and resumes them itself.

\* Values the model lets the stack take while frames interleave.
Bounded(s) ==
  \A r \in DOMAIN s.cursor : s.cursor[r] \in (-MaxDebt)..MaxSold

RemoveAt(q, i) == SubSeq(q, 1, i - 1) \o SubSeq(q, i + 1, Len(q))

\* g = self._get_iterator(d): the call returns a suspended frame.
Call(d) ==
  /\ via = "Right"
  /\ Len(gens) < MaxGens
  /\ sold + d \in (-MaxDebt)..MaxSold
  /\ gens' = Append(gens, _get_iterator(d))
  /\ op' = [kind |-> "call", arg |-> d]
  /\ out' = <<>>
  /\ err' = "none"
  /\ pre' = [idx |-> _rate_index, cursor |-> _cursor]
  /\ sold' = sold + d
  /\ dipped' = (dipped \/ sold + d < 0)
  /\ UNCHANGED <<progression, via, _rates, _rate_index, _cursor, _limits>>
  /\ UNCHANGED ledgerVars

\* next(g) on the i-th held frame; an exhausted frame is dropped.
GenNext(i) ==
  /\ via = "Right"
  /\ i \in 1..Len(gens)
  /\ LET r == Resume(gens[i], Stack) IN
       /\ Bounded(r.stack)
       /\ _rate_index' = r.stack.idx
       /\ _cursor' = r.stack.cursor
       /\ gens' = IF Finished(r.frame)
                    THEN RemoveAt(gens, i)
                    ELSE [gens EXCEPT ![i] = r.frame]
       /\ out' = r.yielded
       /\ err' = r.exc
  /\ op' = [kind |-> "next", arg |-> i]
  /\ pre' = [idx |-> _rate_index, cursor |-> _cursor]
  /\ UNCHANGED <<progression, via, _rates, _limits, sold, dipped>>
  /\ UNCHANGED ledgerVars

\* g.close(), or the caller dropping g: the frame never runs again.
Close(i) ==
  /\ via = "Right"
  /\ i \in 1..Len(gens)
  /\ gens' = RemoveAt(gens, i)
  /\ op' = [kind |-> "close", arg |-> i]
  /\ out' = <<>>
  /\ err' = "none"
  /\ pre' = [idx |-> _rate_index, cursor |-> _cursor]
  /\ UNCHANGED <<progression, via, _rates, _rate_index, _cursor, _limits,
                 sold, dipped>>
  /\ UNCHANGED ledgerVars

NextGen ==
  \/ NewRight
  \/ NewRoyaltyStack
  \/ \E d \in Deltas : Call(d)
  \/ \E i \in 1..MaxGens : GenNext(i)
  \/ \E i \in 1..MaxGens : Close(i)
  \/ Reset

SpecGen == Init /\ [][NextGen]_vars

----------------------------------------------------------------------------
\* The Agreement and its statements (SpecLedger).  Amounts of money are
\* kept in hundredths of the price unit, so that the division by 100 in
\* the due amount is exact, as it is with Decimal.

Names == {"trade volume", "ebook"}

\* Statement(date, copies, price) of the subclass whose name is `name`.
Statement == [name : Names, date : 1..MaxDate,
              copies : (-1)..MaxCopies, price : 1..MaxPrice]

\* The lists of n statements.
StatementLists(n) == [1..n -> Statement]

\* The progressions of the rights of an agreement: a two-tier scale, a
\* flat rate, and the two accepted progressions that have no unbounded tier.
Scales ==
  {p \in { <<[rate |-> 1, limit |-> 1], [rate |-> 2, limit |-> 0]>>,
           <<[rate |-> 2, limit |-> 0]>>,
           <<[rate |-> 1, limit |-> 1]>>,
           <<>> } : progression_is_valid(p)}

\* A constructed Right: its progression and its stack.
Right(p) == [progression |-> p, _royalty_stack |-> NewStack(p)]

\* Variant: ascending dates, but a statement goes before those of its date.
InsertByDate_Before(q, st) ==
  LET n == Cardinality({i \in 1..Len(q) : q[i].date < st.date}) IN
  SubSeq(q, 1, n) \o <<st>> \o SubSeq(q, n + 1, Len(q))

\* list.sort(key=date) is stable: a statement goes after every statement
\* already placed whose date is not later.
InsertByDate(q, st) ==
  LET n == Cardinality({i \in 1..Len(q) : q[i].date <= st.date}) IN
  SubSeq(q, 1, n) \o <<st>> \o SubSeq(q, n + 1, Len(q))

RECURSIVE SortByDate(_, _)
SortByDate(q, acc) ==
  IF q = <<>> THEN acc ELSE SortByDate(Tail(q), InsertByDate(acc, Head(q)))

\* Agreement._sort_statements
_sort_statements(q) == SortByDate(q, <<>>)

\* Variant: _reset_rights that resets nothing.
_reset_rights_Nothing(rs) == rs

\* Agreement._reset_rights
_reset_rights(rs) ==
  [n \in DOMAIN rs |-> [rs[n] EXCEPT !._royalty_stack = reset(@)]]

\* f'{rate}%'
RateLabel(rate) == <<rate, "%">>

\* The ReportItem that Right.apply_statement builds from one record;
\* due is copies * rate * price / 100, here in hundredths.
ReportItem(name, st, rec) ==
  [date |-> st.date, right |-> name, copies |-> rec.copies,
   rate |-> RateLabel(rec.rate), price |-> st.price,
   advance_left |-> "None",
   due |-> rec.copies * rec.rate * st.price]

\* The items of one statement, from the records r that its generator
\* gave before it ended or raised.
ItemsOf(name, right, st, r) ==
  [right |-> [right EXCEPT !._royalty_stack = r.stack],
   items |-> [k \in 1..Len(r.out) |-> ReportItem(name, st, r.out[k])],
   exc |-> r.exc]

\* Right.apply_statement, drained.
apply_statement(name, right, st) ==
  ItemsOf(name, right, st,
          Drain(_get_iterator(st.copies), right._royalty_stack,
                <<>>, DrainBudget))

\* Variant: every item gets the advance less its own due amount.
RECURSIVE Stamp_NoCarry(_, _, _)
Stamp_NoCarry(items, adv_left, acc) ==
  IF items = <<>> THEN [items |-> acc, adv_left |-> adv_left]
  ELSE Stamp_NoCarry(Tail(items), adv_left,
         Append(acc, [Head(items) EXCEPT
                        !.advance_left = adv_left - Head(items).due]))

\* The body of the loop of apply_statements over the items of a statement.
RECURSIVE Stamp(_, _, _)
Stamp(items, adv_left, acc) ==
  IF items = <<>> THEN [items |-> acc, adv_left |-> adv_left]
  ELSE LET left == adv_left - Head(items).due IN
       Stamp(Tail(items), left,
             Append(acc, [Head(items) EXCEPT !.advance_left = left]))

\* Variant: every statement is applied to the same right.
RightFor_First(rs, st) ==
  CHOOSE n \in DOMAIN rs : \A m \in DOMAIN rs : n = m \/ n = "trade volume"

\* self.rights[s.name]
RightFor(rs, st) == st.name

RECURSIVE RunFrom(_, _, _, _, _, _, _)

\* The end of the turn of statement k: its stamped items m join the
\* report; an exception of its generator ends the run there.
Yielded(k, stmts, rs2, items, srcs, tr, a, m) ==
  IF a.exc # "none"
    THEN [rights |-> rs2, items |-> items \o m.items,
          srcs |-> srcs \o [j \in 1..Len(m.items) |-> k],
          trail |-> Append(tr, rs2), exc |-> a.exc]
    ELSE RunFrom(k + 1, stmts, rs2, m.adv_left, items \o m.items,
                 srcs \o [j \in 1..Len(m.items) |-> k], Append(tr, rs2))

\* The turn of statement k: a is what its right n made of it.
Applied(k, stmts, rs, adv_left, items, srcs, tr, n, a) ==
  Yielded(k, stmts, [rs EXCEPT ![n] = a.right], items, srcs, tr, a,
          Stamp(a.items, adv_left, <<>>))

\* chain.from_iterable(raw_items), drained: statement k, k+1, ... in order.
RunFrom(k, stmts, rs, adv_left, items, srcs, tr) ==
  IF k > Len(stmts)
    THEN [rights |-> rs, items |-> items, srcs |-> srcs, trail |-> tr,
          exc |-> "none"]
    ELSE Applied(k, stmts, rs, adv_left, items, srcs, tr,
                 RightFor(rs, stmts[k]),
                 apply_statement(RightFor(rs, stmts[k]),
                                 rs[RightFor(rs, stmts[k])], stmts[k]))

\* apply_statements after _sort_statements and _reset_rights: the list
\* raw_items raises KeyError for a statement without a right, before any
\* item is yielded.
Report(adv, rs0, sorted) ==
  IF \E k \in 1..Len(sorted) : sorted[k].name \notin DOMAIN rs0
    THEN [rights |-> rs0, items |-> <<>>, srcs |-> <<>>,
          trail |-> <<rs0>>, exc |-> "KeyError"]
    ELSE RunFrom(1, sorted, rs0, adv * 100, <<>>, <<>>, <<rs0>>)

\* Agreement.apply_statements, drained.
apply_statements(adv, rs, stmts) ==
  [statements |-> _sort_statements(stmts),
   run |-> Report(adv, _reset_rights(rs), _sort_statements(stmts))]

\* Agreement(advance, rights) with the rights of some of the two kinds.
InitLedger ==
  /\ progression = <<>>
  /\ via = "Agreement"
  /\ _rates = <<>>
  /\ _rate_index = 0
  /\ _cursor = <<>>
  /\ _limits = <<>>
  /\ gens = <<>>
  /\ op = NoCall
  /\ out = <<>>
  /\ err = "none"
  /\ pre = [idx |-> 0, cursor |-> <<>>]
  /\ sold = 0
  /\ dipped = FALSE
  /\ advance \in 1..MaxAdvance
  /\ \E D \in SUBSET Names : rights \in [D -> {Right(p) : p \in Scales}]
  /\ statements = <<>>
  /\ report = <<>>
  /\ added = <<>>
  /\ item_src = <<>>
  /\ trail = <<>>
  /\ runs = 0

stackVars == <<progression, via, _rates, _rate_index, _cursor, _limits,
               gens, out, pre, sold, dipped>>

\* Agreement.add_statements
AddStatements(q) ==
  /\ Len(statements) + Len(q) <= MaxStatements
  /\ statements' = statements \o q
  /\ added' = added \o q
  /\ runs' = 0
  /\ op' = [kind |-> "add_statements", arg |-> Len(q)]
  /\ err' = "none"
  /\ UNCHANGED <<advance, rights, report, item_src, trail>>
  /\ UNCHANGED stackVars

\* list(agreement.apply_statements())
ApplyStatements ==
  /\ runs < MaxRuns
  /\ \E r \in {apply_statements(advance, rights, statements)} :
       /\ statements' = r.statements
       /\ rights' = r.run.rights
       /\ report' = r.run.items
       /\ item_src' = r.run.srcs
       /\ trail' = r.run.trail
       /\ err' = r.run.exc
  /\ runs' = runs + 1
  /\ op' = [kind |-> "apply_statements", arg |-> 0]
  /\ UNCHANGED <<advance, added>>
  /\ UNCHANGED stackVars

NextLedger ==
  \/ \E n \in 1..(MaxStatements - Len(statements)) :
       \E q \in StatementLists(n) : AddStatements(q)
  \/ ApplyStatements

SpecLedger == InitLedger /\ [][NextLedger]_vars

----------------------------------------------------------------------------
\* Vocabulary of the properties.

\* The validity invariant of a progression as the specification states it:
\* rates strictly increase, the limits before the last strictly increase,
\* the last limit is the sentinel 0, the first rate and limit are >= 0.
ValidProgression(p) ==
  /\ Len(p) >= 1
  /\ p[1].rate >= 0
  /\ p[1].limit >= 0
  /\ \A i \in 2..Len(p) : p[i].rate > p[i-1].rate
  /\ \A i \in 2..(Len(p) - 1) : p[i].limit > p[i-1].limit
  /\ p[Len(p)].limit = 0

\* The sentinel 0 stands for "unbounded" in the last tier only.
SentinelOnlyLast(p) == \A i \in 1..(Len(p) - 1) : p[i].limit # 0

Total(c) == SumOver(c, DOMAIN c)

RECURSIVE QtyAtRate(_, _)
QtyAtRate(recs, r) ==
  IF recs = <<>> THEN 0
  ELSE (IF Head(recs).rate = r THEN Head(recs).copies ELSE 0)
       + QtyAtRate(Tail(recs), r)

\* The band of the u-th unit sold: the first tier whose cumulative limit
\* is at least u, the last tier being unbounded.
Band(p, u) ==
  CHOOSE i \in 1..Len(p) :
    /\ i = Len(p) \/ u <= p[i].limit
    /\ \A j \in 1..(i - 1) : u > p[j].limit

\* Reference split: the signed number of units between n and n + d that
\* fall in band i.
RefQty(p, i, n, d) ==
  IF d >= 0
    THEN Cardinality({u \in (n + 1)..(n + d) : Band(p, u) = i})
    ELSE -Cardinality({u \in (n + d + 1)..n : Band(p, u) = i})

Allocated == via = "Right" /\ op.kind = "allocate"

Rec(c, r) == [copies |-> c, rate |-> r]

----------------------------------------------------------------------------
\* C1. Conservation: with a valid progression, the quantities of the
\* records one drained allocate call yields sum to that call's signed delta.
C1_Conservation ==
  (Allocated /\ ValidProgression(progression)) => SumQty(out) = op.arg

\* A return that unwound more than one tier.
C1_Witness ==
  /\ Allocated /\ ValidProgression(progression)
  /\ op.arg < 0 /\ Len(out) >= 2
  /\ \A k \in 1..Len(out) : out[k].copies < 0

\* C2. Inverse round trip: allocate(d) directly followed by allocate(-d)
\* leaves _rate_index and _cursor as they were before allocate(d).
C2_RoundTrip ==
  [][(/\ Allocated /\ ValidProgression(progression)
      /\ op'.kind = "allocate" /\ op'.arg = -op.arg)
     => (_rate_index' = pre.idx /\ _cursor' = pre.cursor)]_vars

\* C3. Marginal rate: while the running total has stayed >= 0, the
\* quantity a call bills at each tier's rate is the reference split of the
\* units between the total before and after the call.
C3_MarginalRate ==
  (/\ Allocated /\ ValidProgression(progression)
   /\ SentinelOnlyLast(progression) /\ ~dipped)
  => \A i \in 1..Len(progression) :
       QtyAtRate(out, progression[i].rate)
         = RefQty(progression, i, sold - op.arg, op.arg)

\* One sale billed in three bands.
C3_Witness ==
  /\ Allocated /\ ValidProgression(progression)
  /\ SentinelOnlyLast(progression) /\ ~dipped
  /\ Len(progression) = 3 /\ op.arg > 0
  /\ \A i \in 1..3 : QtyAtRate(out, progression[i].rate) > 0

\* C4. Boundary rule: a sale that brings a bounded tier from below its
\* width exactly to its width, with nothing in the tiers above, ends in
\* that tier: its last record is the room that tier had, no record is at a
\* higher tier's rate, and _rate_index stays on that tier.  _rate_index
\* advances only in a sale of at least one unit that exceeds the active
\* tier's width.
C4_Boundary ==
  (/\ Allocated /\ ValidProgression(progression) /\ op.arg > 0)
  => /\ \A j \in 1..Len(_rates) :
          LET r == _rates[j] IN
          (/\ _limits[r] # 0
           /\ _cursor[r] = _limits[r]
           /\ pre.cursor[r] < _limits[r]
           /\ \A k \in (j + 1)..Len(_rates) : _cursor[_rates[k]] = 0)
          => /\ _rate_index = j - 1
             /\ out # <<>>
             /\ out[Len(out)] = Rec(_limits[r] - pre.cursor[r], r)
             /\ \A m \in 1..Len(out) : out[m].rate <= r
     /\ _rate_index > pre.idx
          => LET a == _rates[pre.idx + 1] IN
             /\ op.arg >= 1
             /\ _limits[a] # 0
             /\ pre.cursor[a] + op.arg > _limits[a]

\* A sale that crossed one tier and landed exactly on the next limit.
C4_Witness ==
  /\ Allocated /\ ValidProgression(progression) /\ op.arg > 0
  /\ Len(_rates) = 3 /\ _rate_index = 1 /\ pre.idx = 0
  /\ _cursor[_rates[2]] = _limits[_rates[2]]
  /\ Len(out) = 2

\* C5. Rejection: no Right is built from a progression with a non-zero
\* last limit, a rate or a non-final limit that fails to increase, or a
\* negative first rate or limit.
Defective(p) ==
  /\ Len(p) >= 1
  /\ \/ p[Len(p)].limit # 0
     \/ \E i \in 2..Len(p) : p[i].rate <= p[i-1].rate
     \/ \E i \in 2..(Len(p) - 1) : p[i].limit <= p[i-1].limit
     \/ p[1].rate < 0
     \/ p[1].limit < 0

C5_Rejects == Defective(progression) => via # "Right"

\* C6. No runtime error: no call on a Right that construction accepted
\* raises.
C6_NoRuntimeError == via = "Right" => err = "none"

\* C7. Negative attribution: a return of n at tier 0 exceeding its
\* attribution a yields the one record (-n, rate 0) and leaves a - n with
\* _rate_index 0; a following sale of d that keeps tier 0 within its width
\* yields the one record (d, rate 0) and does not advance.
Overdrawn ==
  /\ Allocated /\ ValidProgression(progression)
  /\ op.arg < 0 /\ pre.idx = 0
  /\ -op.arg > pre.cursor[_rates[1]]

C7_NegativeAttribution ==
  /\ [](Overdrawn =>
          /\ err = "none"
          /\ out = <<Rec(op.arg, _rates[1])>>
          /\ _cursor[_rates[1]] = pre.cursor[_rates[1]] + op.arg
          /\ _rate_index = 0)
  /\ [][(/\ Overdrawn
         /\ op'.kind = "allocate" /\ op'.arg > 0
         /\ \/ _limits[_rates[1]] = 0
            \/ _cursor[_rates[1]] + op'.arg <= _limits[_rates[1]])
        => (/\ err' = "none"
            /\ out' = <<Rec(op'.arg, _rates[1])>>
            /\ _rate_index' = 0)]_vars

\* A sale that refilled an overdrawn, bounded tier 0 exactly to its width.
C7_Witness ==
  /\ Allocated /\ ValidProgression(progression)
  /\ op.arg > 0 /\ pre.idx = 0 /\ _rate_index = 0
  /\ pre.cursor[_rates[1]] < 0
  /\ _limits[_rates[1]] # 0
  /\ _cursor[_rates[1]] = _limits[_rates[1]]

\* C8. Reset: after reset the stack equals a freshly constructed one
\* (_rate_index 0, every attribution 0), whatever was done before, and a
\* second reset changes nothing.
C8_Reset ==
  /\ []((via = "Right" /\ op.kind = "reset") =>
          /\ _rate_index = 0
          /\ \A r \in DOMAIN _cursor : _cursor[r] = 0
          /\ Stack = NewStack(progression))
  /\ [][(via = "Right" /\ op.kind = "reset" /\ op'.kind = "reset")
        => (_rate_index' = _rate_index /\ _cursor' = _cursor)]_vars

\* A reset of a stack that had advanced and held attributions.
C8_Witness ==
  /\ via = "Right" /\ op.kind = "reset"
  /\ ValidProgression(progression)
  /\ pre.idx >= 1
  /\ \E r \in DOMAIN pre.cursor : pre.cursor[r] > 0

\* C9. Termination: with a valid progression a drained call returns
\* normally within the resume budget and yields at most one record per
\* tier.
C9_Terminates ==
  (Allocated /\ ValidProgression(progression))
  => (err = "none" /\ Len(out) <= Len(progression))

\* A call that yielded one record per tier of a three-tier progression.
C9_Witness ==
  /\ Allocated /\ ValidProgression(progression)
  /\ Len(progression) = 3 /\ Len(out) = 3

\* C10. Run to completion: when a call of push or pop has returned, the
\* attributions already hold its whole delta.
C10_RunToCompletion ==
  (via = "Right" /\ ValidProgression(progression) /\ op.kind = "call")
  => Total(_cursor) = Total(pre.cursor) + op.arg

\* C13. Record order: a sale yields one record per tier over consecutive
\* tiers upward from the tier active at its start, a return one record per
\* tier downward from it, and _rate_index ends on the tier of the last
\* record (never below its start in a sale, never above it in a return).
C13_RecordOrder ==
  (Allocated /\ ValidProgression(progression))
  => /\ op.arg > 0 =>
          /\ \A k \in 1..Len(out) : out[k].rate = _rates[pre.idx + k]
          /\ _rate_index >= pre.idx
          /\ _rate_index = pre.idx + Len(out) - 1
     /\ op.arg < 0 =>
          /\ \A k \in 1..Len(out) : out[k].rate = _rates[pre.idx + 2 - k]
          /\ _rate_index <= pre.idx
          /\ _rate_index = pre.idx - Len(out) + 1

\* A return that went down through three tiers.
C13_Witness ==
  /\ Allocated /\ ValidProgression(progression)
  /\ op.arg < 0 /\ pre.idx = 2 /\ Len(out) = 3 /\ _rate_index = 0

\* C14. State shape: between drained calls, _rate_index is a tier index,
\* the tiers below it hold exactly their width, the tiers above it hold 0,
\* a bounded active tier holds at most its width, and only tier 0, active,
\* can hold a negative attribution.
C14_StateShape ==
  (via = "Right" /\ ValidProgression(progression))
  => /\ _rate_index >= 0
     /\ _rate_index < Len(_rates)
     /\ \A j \in 1..Len(_rates) :
          LET r == _rates[j] IN
          /\ j < _rate_index + 1 => _cursor[r] = _limits[r]
          /\ j > _rate_index + 1 => _cursor[r] = 0
          /\ (j = _rate_index + 1 /\ _limits[r] # 0) => _cursor[r] <= _limits[r]
          /\ j >= 2 => _cursor[r] >= 0
          /\ _cursor[r] < 0 => (j = 1 /\ _rate_index = 0)

\* Tier 0 full, tier 1 partly filled and active, tier 2 empty, after a
\* return came back down from tier 2.
C14_Witness ==
  /\ Allocated /\ ValidProgression(progression)
  /\ Len(_rates) = 3 /\ op.arg < 0 /\ pre.idx = 2 /\ _rate_index = 1
  /\ _cursor[_rates[1]] = _limits[_rates[1]]
  /\ _cursor[_rates[2]] > 0 /\ _cursor[_rates[2]] < _limits[_rates[2]]
  /\ _cursor[_rates[3]] = 0

\* C15. Cumulative total: the attributions of all tiers sum to the sum of
\* the signed deltas of the calls since construction or the last reset.
C15_CumulativeTotal ==
  (via = "Right" /\ ValidProgression(progression)) => Total(_cursor) = sold

\* A total spread over two tiers after sales and a return.
C15_Witness ==
  /\ Allocated /\ ValidProgression(progression)
  /\ op.arg < 0 /\ _rate_index >= 1 /\ sold >= 2
  /\ _cursor[_rates[_rate_index + 1]] > 0

\* C16. No empty allocations: a sale yields only positive quantities, a
\* return only negative ones, and allocate(0) yields nothing and changes
\* nothing.
C16_NoEmptyRecord ==
  (Allocated /\ ValidProgression(progression))
  => /\ op.arg > 0 => \A k \in 1..Len(out) : out[k].copies > 0
     /\ op.arg < 0 => \A k \in 1..Len(out) : out[k].copies < 0
     /\ op.arg = 0 =>
          (out = <<>> /\ _rate_index = pre.idx /\ _cursor = pre.cursor)

\* C17. Only the last tier is unbounded: no Right is built from a
\* progression of two or more tiers whose first limit is 0.
C17_FirstLimitBounded ==
  (via = "Right" /\ Len(progression) >= 2) => progression[1].limit # 0

Rejectable(p) ==
  /\ Len(p) >= 1
  /\ \/ p[1].rate < 0
     \/ p[1].limit < 0
     \/ \E i \in 2..Len(p) : p[i].rate <= p[i-1].rate
     \/ \E i \in 2..(Len(p) - 1) : p[i].limit <= p[i-1].limit
     \/ Len(p) >= 2 /\ p[Len(p)].limit # 0

----------------------------------------------------------------------------
\* Vocabulary of the properties of the ledger.

\* A run of apply_statements has just been drained.
RunDrained == via = "Agreement" /\ op.kind = "apply_statements"

\* The statements of q dated d, in the order of q.
OnDate(q, d) == LET Is(st) == st.date = d IN SelectSeq(q, Is)

\* C11  Ledger ordering: after apply_statements the statements stand in
\* non-decreasing date order whatever the order they were added in, those
\* of one date in the order they were added, and the report items follow
\* the statements in that order, the items of one statement together.
C11_LedgerOrder ==
  RunDrained =>
    /\ \A i, j \in 1..Len(statements) :
         i <= j => statements[i].date <= statements[j].date
    /\ Len(statements) = Len(added)
    /\ \A d \in 1..MaxDate : OnDate(statements, d) = OnDate(added, d)
    /\ Len(item_src) = Len(report)
    /\ \A i, j \in 1..Len(report) : i <= j => item_src[i] <= item_src[j]
    /\ \A i \in 1..Len(report) :
         /\ item_src[i] \in 1..Len(statements)
         /\ report[i].date = statements[item_src[i]].date
         /\ report[i].right = statements[item_src[i]].name
         /\ report[i].price = statements[item_src[i]].price

\* Two statements added latest first, each giving items, the earlier one
\* giving two.
C11_Witness ==
  /\ RunDrained
  /\ err = "none"
  /\ Len(added) = 2
  /\ added[1].date > added[2].date
  /\ statements = <<added[2], added[1]>>
  /\ Len(report) = 3
  /\ item_src = <<1, 1, 2>>

\* The due amounts of the first k items, in hundredths.
RECURSIVE DueUpTo(_, _)
DueUpTo(items, k) == IF k = 0 THEN 0 ELSE DueUpTo(items, k - 1) + items[k].due

\* The number in a rate label.
RateOf(label) == label[1]

\* Every item carries copies * rate * price / 100 as due and, as
\* advance_left, the advance less all that is due so far.
Balanced ==
  RunDrained =>
    \A k \in 1..Len(report) :
      /\ report[k].rate = <<RateOf(report[k].rate), "%">>
      /\ report[k].due
           = report[k].copies * RateOf(report[k].rate) * report[k].price
      /\ report[k].advance_left = advance * 100 - DueUpTo(report, k)

\* C12  Running advance balance: each item's advance_left is the
\* agreement's advance minus the due amounts of all items up to and
\* including it, across all rights, each due being
\* copies * rate * price / 100; the advance of the agreement stays as it was.
C12_RunningBalance ==
  /\ []Balanced
  /\ [][op'.kind = "apply_statements" => advance' = advance]_vars

\* Items of two rights, a return among them, at a price above one.
C12_Witness ==
  /\ RunDrained
  /\ err = "none"
  /\ Len(report) = 3
  /\ report[1].right # report[3].right
  /\ report[3].due < 0
  /\ report[1].price > 1
  /\ report[3].advance_left # advance * 100 - report[3].due

\* The statements of q for the right named n, in the order of q.
OwnStatements(q, n) == LET Is(st) == st.name = n IN SelectSeq(q, Is)

\* The items of the right named n, in the order of the report.
OwnItems(items, n) == LET Is(it) == it.right = n IN SelectSeq(items, Is)

\* What a record says, without the balance of the agreement.
Records(items) ==
  [k \in 1..Len(items) |->
     [date |-> items[k].date, copies |-> items[k].copies,
      rate |-> items[k].rate, price |-> items[k].price, due |-> items[k].due]]

\* The report of the right named n alone, from its own statements.
Alone(n) ==
  RunFrom(1, OwnStatements(statements, n),
          [m \in {n} |-> Right(rights[n].progression)],
          advance * 100, <<>>, <<>>, <<>>)

\* C19  Per-right isolation: applying a statement changes the allocator of
\* no right but the one named by the statement, and in a run that
\* completes the records of a right are those its own statements, in date
\* order, give with no other right present.
C19_Isolation ==
  RunDrained =>
    /\ \A k \in 1..(Len(trail) - 1) :
         \A n \in DOMAIN rights :
           n # statements[k].name => trail[k + 1][n] = trail[k][n]
    /\ err = "none" =>
         \A n \in DOMAIN rights :
           /\ Records(OwnItems(report, n)) = Records(Alone(n).items)
           /\ rights[n] = Alone(n).rights[n]

\* Two rights on the two-tier scale, a statement for each, both past
\* their first tier.
C19_Witness ==
  /\ RunDrained
  /\ err = "none"
  /\ DOMAIN rights = Names
  /\ Len(statements) = 2
  /\ statements[1].name # statements[2].name
  /\ Len(report) = 4
  /\ Len(trail) = 3
  /\ \A n \in Names : rights[n]._royalty_stack.idx = 1
  /\ trail[2]["trade volume"] # trail[3]["trade volume"]

\* C20  Replay idempotence: a run of apply_statements to completion right
\* after another, with no statement added in between, gives the same
\* report items as the run before it, whatever state that run left in the
\* allocators.
C20_Replay ==
  [][(/\ RunDrained /\ err = "none"
      /\ op'.kind = "apply_statements" /\ err' = "none")
     => /\ report' = report
        /\ statements' = statements
        /\ rights' = rights]_vars

\* A second run in a row, over allocators the first left past their
\* first tier.
C20_Witness ==
  /\ RunDrained
  /\ err = "none"
  /\ runs = 2
  /\ Len(report) >= 3
  /\ \E n \in DOMAIN rights :
       /\ rights[n]._royalty_stack.idx = 1
       /\ Len(OwnItems(report, n)) >= 2
====
